---- MODULE Spec2Model ----
(***************************************************************************)
(* Model of the claude-agent-platform core: AgentCoordinator (agent        *)
(* registry, inboxes, completion timers), BaseFramework (workflow map,     *)
(* cleanup) and SimpleFramework (createWorkflow, executeWorkflow with the  *)
(* sequential and parallel strategies, waitForAgent).                      *)
(*                                                                         *)
(* JavaScript runs one synchronous segment at a time; a segment ends at an *)
(* await.  Every action below is one such segment.  Continuations of       *)
(* already settled promises (microtasks) run before any timer callback, so *)
(* the timer-driven actions (the completion timer of spawnAgent and the    *)
(* 100 ms sleep of waitForAgent) are enabled only when no continuation is  *)
(* pending (Quiescent).  Calls by other callers can come at any point.     *)
(* Wall-clock time is abstracted: whether Date.now() - startTime has       *)
(* reached the timeout is a nondeterministic choice at each poll.          *)
(***************************************************************************)
EXTENDS Integers, Sequences, FiniteSets, TLC

\* ---- bounds of the model -------------------------------------------------
\* total number of API calls issued by callers (createWorkflow,
\* executeWorkflow, cleanup, and direct coordinator calls); the next-state
\* relations stop issuing calls at the bound
MaxCalls == 3

\* number of calls of the caller that runs two workflows side by side (two
\* createWorkflow, two executeWorkflow)
MaxCallsTwo == 4

\* ---- domains ---------------------------------------------------------------
\* the workflow id the callers use; a caller that runs two workflows uses "v"
\* as well
WorkflowIds == {"w"}
TwoWorkflowIds == {"w", "v"}
AgentNames == {"A", "B"}

\* variant of the agent id that leaves the workflow id out
AgentIdNameOnly(wid, name) == <<"w", name>>

\* an agent id `${workflow.id}-${task.agent}` is kept as its two segments
AgentId(wid, name) == <<wid, name>>
AgentIds == {AgentId(w, n) : w \in WorkflowIds, n \in AgentNames}
TwoAgentIds == {<<w, n>> : w \in TwoWorkflowIds, n \in AgentNames}

\* task descriptions: TaskOf(name) is the text a plan gives to agent name
\* (B's contains the keyword 'translate', A's no keyword), AdhocTask the text
\* a direct caller of spawnAgent uses (no keyword)
TranslateTask == "Translate the greeting"
TaskOf(name) == IF name = "B" THEN TranslateTask ELSE "Do something"
AdhocTask == "Do something else"

Task(name, pass) == [agent |-> name, task |-> TaskOf(name), passResults |-> pass]

\* the workflow configurations callers create: (type, config.tasks)
Configs ==
  { [type |-> "sequential", tasks |-> <<Task("A", FALSE), Task("B", FALSE)>>],
    [type |-> "sequential", tasks |-> <<Task("A", TRUE), Task("B", FALSE)>>],
    [type |-> "sequential", tasks |-> <<Task("A", FALSE), Task("A", FALSE)>>],
    [type |-> "sequential", tasks |-> << >>],
    [type |-> "parallel", tasks |-> <<Task("A", FALSE), Task("B", FALSE)>>],
    [type |-> "parallel", tasks |-> <<Task("A", FALSE), Task("A", FALSE)>>],
    [type |-> "pipeline", tasks |-> <<Task("A", FALSE)>>] }

\* ---- values ------------------------------------------------------------------
\* a JS Map is a function whose domain is the set of its keys
EmptyMap == [k \in {} |-> k]
MapSet(m, key, val) == (key :> val) @@ m
MapDelete(m, key) == [k \in DOMAIN m \ {key} |-> m[k]]

Null == [null |-> TRUE]
NoError == << >>

\* error messages, by their wording and the id they name
AlreadyExists(id) == <<"Agent already exists", id>>
AgentNotFound(id) == <<"Agent not found", id>>
AgentFailed(id) == <<"Agent failed", id>>
AgentTimedOut(id) == <<"Agent timed out", id>>
WorkflowNotFound(wid) == <<"Workflow not found", wid>>
UnknownType(type) == <<"Unknown workflow type", type>>

VARIABLES
  agents,         \* AgentCoordinator.agents: Map id -> agent object
  messageQueues,  \* AgentCoordinator.messageQueues: Map id -> inbox
  timers,         \* pending completion timers of spawnAgent, in firing order
  workflows,      \* BaseFramework.workflows: id -> index into wfObjs, 0 = absent
  wfObjs,         \* the workflow objects ever created (identity = index)
  execs,          \* the executeWorkflow calls made so far (async activations)
  cleanups,       \* the framework cleanup(workflowId) calls made so far
  emitted,        \* events emitted by the last step, in order
  completedEv,    \* id -> number of agent:completed events since its last agent:spawned
  wfEvents,       \* per workflow object: numbers of workflow:completed/failed emitted
  ret,            \* what the API call issued in the last step returned or raised
  calls,          \* number of API calls issued by callers so far
  call,           \* the API call issued by the last step (NoCall for a continuation)
  agentOrder,     \* the keys of AgentCoordinator.agents in insertion order
  coordCleanups,  \* the coordinator cleanup() calls made so far (Map iterators)
  doneOrder       \* the registered agents that are completed, in the order they completed

vars == <<agents, messageQueues, timers, workflows, wfObjs, execs, cleanups,
          emitted, completedEv, wfEvents, ret, calls, call, agentOrder,
          coordCleanups, doneOrder>>

\* the coordinator's part of the state, threaded through its operations
Coord == [agents |-> agents, messageQueues |-> messageQueues, timers |-> timers,
          emitted |-> << >>, completedEv |-> completedEv,
          order |-> agentOrder, iters |-> coordCleanups, done |-> doneOrder]

SetCoord(c) ==
  /\ agents' = c.agents
  /\ messageQueues' = c.messageQueues
  /\ timers' = c.timers
  /\ emitted' = c.emitted
  /\ completedEv' = c.completedEv
  /\ agentOrder' = c.order
  /\ coordCleanups' = c.iters
  /\ doneOrder' = c.done

\* ---- AgentCoordinator ----------------------------------------------------------

\* generateRealisticResult: keyword matches come first (of the keywords only
\* 'translate' occurs in the task texts of the model, none in the agent ids),
\* the fallback names the last '-' segment of the agent id and the task
generateRealisticResult(agentId, task) ==
  IF task = TranslateTask
  THEN <<"Spanish: Hola, Mundo!">>
  ELSE <<"Agent", agentId[Len(agentId)], "completed task:", task>>

ResultOf(agentId, task) ==
  [completed |-> TRUE, output |-> generateRealisticResult(agentId, task)]

HasAgent(c, id) == id \in DOMAIN c.agents

\* the keys of a Map are iterated in insertion order, and an iterator is live:
\* it skips entries deleted before it reaches them and visits entries added
\* while it runs.  An iterator is kept as the keys it has still to visit.
Without(seq, id) == SelectSeq(seq, LAMBDA y : y # id)
IterAdd(iters, id) ==
  [j \in 1..Len(iters) |->
     IF iters[j].pc = "loop" THEN [iters[j] EXCEPT !.pending = Append(@, id)]
     ELSE iters[j]]
IterDelete(iters, id) ==
  [j \in 1..Len(iters) |-> [iters[j] EXCEPT !.pending = Without(@, id)]]

\* the duplicate check at the top of spawnAgent
spawnRejectedNever(c, id) == FALSE
spawnRejected(c, id) == HasAgent(c, id)

\* spawnAgent past its duplicate check: store the agent, create the inbox,
\* emit agent:spawned, start the completion timer
\* variant of spawnAgent that does not start the agent's work
spawnAgentNoTimer(c, id, task, options) ==
  [c EXCEPT
     !.agents = MapSet(@, id, [status |-> "idle", task |-> task,
                               options |-> options, results |-> Null]),
     !.messageQueues = MapSet(@, id, << >>),
     !.emitted = Append(@, <<"agent:spawned", id, task>>),
     !.completedEv[id] = 0,
     !.order = Append(@, id),
     !.iters = IterAdd(@, id)]

spawnAgent(c, id, task, options) ==
  [c EXCEPT
     !.agents = MapSet(@, id, [status |-> "idle", task |-> task,
                               options |-> options, results |-> Null]),
     !.messageQueues = MapSet(@, id, << >>),
     !.emitted = Append(@, <<"agent:spawned", id, task>>),
     !.timers = Append(@, [agentId |-> id, task |-> task]),
     !.completedEv[id] = 0,
     !.order = Append(@, id),
     !.iters = IterAdd(@, id)]

\* variant of sendMessage that puts the message at the front of the inbox
sendMessageUnshift(c, from, to, message) ==
  LET fullMessage == [from |-> from, to |-> to, message |-> message]
  IN [c EXCEPT !.messageQueues[to] = <<fullMessage>> \o @,
               !.emitted = Append(@, <<"message:sent", fullMessage>>)]

\* sendMessage past its inbox check
sendMessage(c, from, to, message) ==
  LET fullMessage == [from |-> from, to |-> to, message |-> message]
  IN [c EXCEPT !.messageQueues[to] = Append(@, fullMessage),
               !.emitted = Append(@, <<"message:sent", fullMessage>>)]

\* variant of completeAgent that stores the results and emits the event but
\* leaves the status as it is
completeAgentKeepsStatus(c, id, results) ==
  IF HasAgent(c, id)
  THEN [c EXCEPT !.agents[id].results = results,
                 !.emitted = Append(@, <<"agent:completed", id, results>>),
                 !.completedEv[id] = @ + 1]
  ELSE c

\* variant of completeAgent that emits agent:completed whether or not the
\* agent is registered
completeAgentAlwaysEmits(c, id, results) ==
  IF HasAgent(c, id)
  THEN [c EXCEPT !.agents[id].status = "completed",
                 !.agents[id].results = results,
                 !.emitted = Append(@, <<"agent:completed", id, results>>),
                 !.completedEv[id] = @ + 1,
                 !.done = IF c.agents[id].status = "completed" THEN @ ELSE Append(@, id)]
  ELSE [c EXCEPT !.emitted = Append(@, <<"agent:completed", id, results>>)]

\* variant of completeAgent that reports the work as failed
completeAgentFails(c, id, results) ==
  IF HasAgent(c, id)
  THEN [c EXCEPT !.agents[id].status = "failed",
                 !.agents[id].results = results,
                 !.emitted = Append(@, <<"agent:failed", id, results>>)]
  ELSE c

completeAgent(c, id, results) ==
  IF HasAgent(c, id)
  THEN [c EXCEPT !.agents[id].status = "completed",
                 !.agents[id].results = results,
                 !.emitted = Append(@, <<"agent:completed", id, results>>),
                 !.completedEv[id] = @ + 1,
                 !.done = IF c.agents[id].status = "completed" THEN @ ELSE Append(@, id)]
  ELSE c

\* variant of terminateAgent without the has() test: the event is emitted also
\* for an id that is not in the registry
terminateAgentAlwaysEmits(c, id) ==
  [c EXCEPT !.agents = MapDelete(@, id),
            !.messageQueues = MapDelete(@, id),
            !.emitted = Append(@, <<"agent:terminated", id>>),
            !.order = Without(@, id),
            !.iters = IterDelete(@, id),
            !.done = Without(@, id)]

\* variant of terminateAgent that deletes the agent and leaves its inbox
terminateAgentKeepsInbox(c, id) ==
  IF HasAgent(c, id)
  THEN [c EXCEPT !.agents = MapDelete(@, id),
                 !.emitted = Append(@, <<"agent:terminated", id>>),
                 !.order = Without(@, id),
                 !.iters = IterDelete(@, id),
                 !.done = Without(@, id)]
  ELSE c

terminateAgent(c, id) ==
  IF HasAgent(c, id)
  THEN [c EXCEPT !.agents = MapDelete(@, id),
                 !.messageQueues = MapDelete(@, id),
                 !.emitted = Append(@, <<"agent:terminated", id>>),
                 !.order = Without(@, id),
                 !.iters = IterDelete(@, id),
                 !.done = Without(@, id)]
  ELSE c

\* variant of getStatistics whose total counts only the agents still idle
getStatisticsIdleOnly ==
  [totalAgents |-> Cardinality({id \in DOMAIN agents : agents[id].status = "idle"}),
   activeAgents |-> Cardinality({id \in DOMAIN agents : agents[id].status = "active"}),
   completedAgents |->
     Cardinality({id \in DOMAIN agents : agents[id].status = "completed"})]

\* getStatistics: agents.size and two filters over agents.values()
getStatistics ==
  [totalAgents |-> Cardinality(DOMAIN agents),
   activeAgents |-> Cardinality({id \in DOMAIN agents : agents[id].status = "active"}),
   completedAgents |->
     Cardinality({id \in DOMAIN agents : agents[id].status = "completed"})]

getMessages(id) == IF id \in DOMAIN messageQueues THEN messageQueues[id] ELSE << >>

\* ---- workflow objects and activations -------------------------------------------

FrameworkOptions == [framework |-> "SimpleFramework"]
NoOptions == [framework |-> "none"]

Branch(st) == [st |-> st, res |-> Null, err |-> NoError]

\* results is a JS object: assignment keeps the position of an existing key
SetResult(results, key, val) ==
  IF \E j \in 1..Len(results) : results[j].agent = key
  THEN [j \in 1..Len(results) |->
          IF results[j].agent = key THEN [agent |-> key, results |-> val]
          ELSE results[j]]
  ELSE Append(results, [agent |-> key, results |-> val])

HasResult(results, key) == \E j \in 1..Len(results) : results[j].agent = key

\* an activation of executeWorkflow: wf is the workflow object it holds,
\* pc its position, i the loop index of executeSequential, br the state of
\* the per-task async chain(s): one for executeSequential, one per task
\* (the map callbacks) for executeParallel
NewExec(wid, o) ==
  [wid |-> wid, wf |-> o, pc |-> "start", err |-> NoError, i |-> 0, br |-> << >>]

\* a per-task chain throws: in executeSequential the error propagates to the
\* catch of executeWorkflow; in executeParallel it rejects Promise.all, which
\* settles only once (later rejections are dropped)
Reject(x, k, err) ==
  [x EXCEPT !.br[k].st = "rejected",
            !.br[k].err = err,
            !.pc = IF x.pc \in {"seq", "par"} THEN "catch" ELSE @,
            !.err = IF x.pc \in {"seq", "par"} THEN err ELSE @]

\* variant of the loop body of waitForAgent that returns as soon as the agent
\* is registered, whatever its status
PollOnceNoWait(x, k, id) ==
  IF id \notin DOMAIN agents THEN Reject(x, k, AgentNotFound(id))
  ELSE [x EXCEPT !.br[k].st = "get"]

\* variant of the loop body of waitForAgent that takes an agent that is no
\* longer registered for a finished one
PollOnceMissingIsDone(x, k, id) ==
  IF id \notin DOMAIN agents THEN [x EXCEPT !.br[k].st = "get"]
  ELSE IF agents[id].status = "completed" THEN [x EXCEPT !.br[k].st = "get"]
  ELSE IF agents[id].status = "failed" THEN Reject(x, k, AgentFailed(id))
  ELSE [x EXCEPT !.br[k].st = "poll"]

\* one pass of the loop body of waitForAgent: getAgentStatus, then the
\* status tests; "poll" is the 100 ms sleep before the next pass
PollOnce(x, k, id) ==
  IF id \notin DOMAIN agents THEN Reject(x, k, AgentNotFound(id))
  ELSE IF agents[id].status = "completed" THEN [x EXCEPT !.br[k].st = "get"]
  ELSE IF agents[id].status = "failed" THEN Reject(x, k, AgentFailed(id))
  ELSE [x EXCEPT !.br[k].st = "poll"]

\* executeSequential, top of iteration i: compute the agent id and spawn it
SeqSpawn(x, c, w, i) ==
  LET id == AgentId(w.id, w.tasks[i].agent)
      xi == [x EXCEPT !.i = i, !.br = <<Branch("spawn")>>]
  IN IF spawnRejected(c, id)
     THEN [x |-> Reject(xi, 1, AlreadyExists(id)), c |-> c]
     ELSE [x |-> [xi EXCEPT !.br[1].st = "push"],
           c |-> spawnAgent(c, id, w.tasks[i].task, FrameworkOptions)]

\* variant of the fan-out in which only the callback of the first task runs
\* up to its spawnAgent; the others have not started
ParFanOutFirstOnly(c, w, k) ==
  IF k = 0 THEN [c |-> c, br |-> << >>]
  ELSE LET id == AgentId(w.id, w.tasks[1].agent)
           rest == [j \in 1..(k - 1) |-> Branch("spawn")]
       IN IF spawnRejected(c, id)
          THEN [c |-> c,
                br |-> <<[st |-> "rejected", res |-> Null,
                          err |-> AlreadyExists(id)]>> \o rest]
          ELSE [c |-> spawnAgent(c, id, w.tasks[1].task, FrameworkOptions),
                br |-> <<Branch("push")>> \o rest]

\* executeParallel, tasks.map(...): the callbacks of tasks 1..k run one after
\* the other up to their first await, each spawning its agent
RECURSIVE ParFanOut(_, _, _)
ParFanOut(c, w, k) ==
  IF k = 0 THEN [c |-> c, br |-> << >>]
  ELSE LET prev == ParFanOut(c, w, k - 1)
           id == AgentId(w.id, w.tasks[k].agent)
       IN IF spawnRejected(prev.c, id)
          THEN [c |-> prev.c,
                br |-> Append(prev.br, [st |-> "rejected", res |-> Null,
                                        err |-> AlreadyExists(id)])]
          ELSE [c |-> spawnAgent(prev.c, id, w.tasks[k].task, FrameworkOptions),
                br |-> Append(prev.br, Branch("push"))]

FirstRejected(br) ==
  IF \E k \in 1..Len(br) : br[k].st = "rejected"
  THEN LET k == CHOOSE j \in 1..Len(br) :
                  /\ br[j].st = "rejected"
                  /\ \A h \in 1..(j - 1) : br[h].st # "rejected"
       IN br[k].err
  ELSE NoError

\* variant of the loop after Promise.all that stores every result under the
\* name of the first task
JoinResultsUnderFirstName(results, tasks, br, k) ==
  IF k = 0 THEN results ELSE SetResult(results, tasks[1].agent, br[k].res)

\* executeParallel, the loop after Promise.all: results in task order
RECURSIVE JoinResults(_, _, _, _)
JoinResults(results, tasks, br, k) ==
  IF k = 0 THEN results
  ELSE SetResult(JoinResults(results, tasks, br, k - 1), tasks[k].agent, br[k].res)

TaskIdx(x, k) == IF wfObjs[x.wf].type = "sequential" THEN x.i ELSE k

BranchAgent(x, k) ==
  AgentId(wfObjs[x.wf].id, wfObjs[x.wf].tasks[TaskIdx(x, k)].agent)

\* continuations run in the order they were queued: the one that follows a
\* successful spawnAgent (the push) was queued before a rejection of the same
\* fan-out has travelled through Promise.all to the catch of executeWorkflow
PushesDone(x) == \A k \in 1..Len(x.br) : x.br[k].st # "push"

\* no continuation of a settled promise is pending
Quiescent ==
  /\ \A e \in 1..Len(execs) :
       /\ execs[e].pc \notin {"finish", "catch"}
       /\ \A k \in 1..Len(execs[e].br) : execs[e].br[k].st \notin {"push", "get", "next"}
       /\ ~(execs[e].pc = "par" /\ \A k \in 1..Len(execs[e].br) : execs[e].br[k].st = "resolved")
  /\ \A c \in 1..Len(cleanups) :
       /\ cleanups[c].pc # "loop"
       /\ ~(cleanups[c].pc = "done" /\ cleanups[c].outer = "await")
  /\ \A c \in 1..Len(coordCleanups) : coordCleanups[c].pc # "loop"

NoRet == <<"none">>
NoCall == <<"no call">>
Returned(v) == <<"returned", v>>
\* a returned workflow object, by its place in wfObjs
Handle(o) == <<"workflow", o>>
Raised(err) == <<"raised", err>>

Init ==
  /\ agents = EmptyMap
  /\ messageQueues = EmptyMap
  /\ timers = << >>
  /\ workflows = [w \in TwoWorkflowIds |-> 0]
  /\ wfObjs = << >>
  /\ execs = << >>
  /\ cleanups = << >>
  /\ emitted = << >>
  /\ completedEv = [id \in TwoAgentIds |-> 0]
  /\ wfEvents = << >>
  /\ ret = NoRet
  /\ calls = 0
  /\ call = NoCall
  /\ agentOrder = << >>
  /\ coordCleanups = << >>
  /\ doneOrder = << >>

CoordUnchanged ==
  UNCHANGED <<agents, messageQueues, timers, completedEv, agentOrder, coordCleanups,
              doneOrder>>

\* ---- SimpleFramework.createWorkflow ---------------------------------------------
\* variant of createWorkflow that returns the tracked record when the id is
\* already in use
CreateWorkflowKeepsExisting(wid, cfg) ==
  /\ call' = <<"createWorkflow", wid>>
  /\ calls' = calls + 1
  /\ IF workflows[wid] # 0
     THEN /\ ret' = Returned(Handle(workflows[wid]))
          /\ UNCHANGED <<wfObjs, wfEvents, workflows>>
     ELSE /\ wfObjs' = Append(wfObjs, [id |-> wid, type |-> cfg.type,
                                       status |-> "initialized", tasks |-> cfg.tasks,
                                       agents |-> << >>, results |-> << >>,
                                       error |-> NoError])
          /\ wfEvents' = Append(wfEvents, [completed |-> 0, failed |-> 0])
          /\ workflows' = [workflows EXCEPT ![wid] = Len(wfObjs) + 1]
          /\ ret' = Returned(Handle(Len(wfObjs) + 1))
  /\ emitted' = << >>
  /\ CoordUnchanged
  /\ UNCHANGED <<execs, cleanups>>

CreateWorkflow(wid, cfg) ==
  /\ call' = <<"createWorkflow", wid>>
  /\ calls' = calls + 1
  /\ wfObjs' = Append(wfObjs, [id |-> wid, type |-> cfg.type, status |-> "initialized",
                               tasks |-> cfg.tasks, agents |-> << >>,
                               results |-> << >>, error |-> NoError])
  /\ wfEvents' = Append(wfEvents, [completed |-> 0, failed |-> 0])
  /\ workflows' = [workflows EXCEPT ![wid] = Len(wfObjs) + 1]
  /\ emitted' = << >>
  /\ ret' = Returned(Handle(Len(wfObjs) + 1))
  /\ CoordUnchanged
  /\ UNCHANGED <<execs, cleanups>>

\* ---- SimpleFramework.executeWorkflow, up to its first await ----------------------
\* variant of the lookup that still finds the record last created after it
\* was deleted from the Map
LookupWorkflowStale(wid) ==
  IF workflows[wid] # 0 THEN workflows[wid] ELSE Len(wfObjs)

\* this.workflows.get(workflowId): 0 stands for undefined
LookupWorkflow(wid) == workflows[wid]

ExecuteWorkflow(wid) ==
  /\ call' = <<"executeWorkflow", wid>>
  /\ calls' = calls + 1
  /\ UNCHANGED <<workflows, cleanups>>
  /\ ret' = IF LookupWorkflow(wid) = 0 THEN Raised(WorkflowNotFound(wid))
            ELSE IF wfObjs[LookupWorkflow(wid)].type \notin {"sequential", "parallel"}
            THEN Raised(UnknownType(wfObjs[LookupWorkflow(wid)].type))
            ELSE NoRet
  /\ IF LookupWorkflow(wid) = 0
     THEN /\ execs' = Append(execs, [NewExec(wid, 0) EXCEPT
                                       !.pc = "raised", !.err = WorkflowNotFound(wid)])
          /\ emitted' = << >>
          /\ CoordUnchanged
          /\ UNCHANGED <<wfObjs, wfEvents>>
     ELSE LET o == LookupWorkflow(wid)
              w == wfObjs[o]
              x == NewExec(wid, o)
          IN CASE w.type = "sequential" /\ w.tasks = << >> ->
                    /\ execs' = Append(execs, [x EXCEPT !.pc = "finish"])
                    /\ wfObjs' = [wfObjs EXCEPT ![o].status = "running"]
                    /\ emitted' = << >>
                    /\ CoordUnchanged
                    /\ UNCHANGED wfEvents
               [] w.type = "sequential" /\ w.tasks # << >> ->
                    LET r == SeqSpawn([x EXCEPT !.pc = "seq"], Coord, w, 1)
                    IN /\ execs' = Append(execs, r.x)
                       /\ wfObjs' = [wfObjs EXCEPT ![o].status = "running"]
                       /\ SetCoord(r.c)
                       /\ UNCHANGED wfEvents
               [] w.type = "parallel" ->
                    LET f == ParFanOut(Coord, w, Len(w.tasks))
                        err == FirstRejected(f.br)
                    IN /\ execs' = Append(execs,
                            [x EXCEPT !.br = f.br,
                                      !.pc = IF err = NoError THEN "par" ELSE "catch",
                                      !.err = err])
                       /\ wfObjs' = [wfObjs EXCEPT ![o].status = "running"]
                       /\ SetCoord(f.c)
                       /\ UNCHANGED wfEvents
               [] OTHER ->
                    \* the throw is inside the try: the catch runs in this segment
                    /\ execs' = Append(execs, [x EXCEPT !.pc = "raised",
                                                        !.err = UnknownType(w.type)])
                    /\ wfObjs' = [wfObjs EXCEPT ![o].status = "failed",
                                                ![o].error = UnknownType(w.type)]
                    /\ wfEvents' = [wfEvents EXCEPT ![o].failed = @ + 1]
                    /\ emitted' = << <<"workflow:failed", wid, UnknownType(w.type)>> >>
                    /\ CoordUnchanged

\* ---- the completion timer of spawnAgent -------------------------------------------
\* all timers have the same delay, so they fire in the order they were set
TimerFire ==
  /\ call' = NoCall
  /\ timers # << >>
  /\ Quiescent
  /\ LET t == Head(timers)
     IN SetCoord(completeAgent([Coord EXCEPT !.timers = Tail(@)], t.agentId,
                               ResultOf(t.agentId, t.task)))
  /\ ret' = NoRet
  /\ UNCHANGED <<workflows, wfObjs, execs, cleanups, wfEvents, calls>>

\* ---- the per-task chain of executeSequential / executeParallel -------------------
\* variant of the step after spawnAgent that records the agent of the first
\* task whatever task the chain belongs to
PushFirstTaskAgent(e, k) ==
  /\ call' = NoCall
  /\ e \in 1..Len(execs)
  /\ k \in 1..Len(execs[e].br)
  /\ execs[e].br[k].st = "push"
  /\ LET x == execs[e]
         id == BranchAgent(x, k)
         first == AgentId(wfObjs[x.wf].id, wfObjs[x.wf].tasks[1].agent)
     IN /\ wfObjs' = [wfObjs EXCEPT ![x.wf].agents = Append(@, first)]
        /\ execs' = [execs EXCEPT ![e] = PollOnce(x, k, id)]
  /\ emitted' = << >>
  /\ ret' = NoRet
  /\ CoordUnchanged
  /\ UNCHANGED <<workflows, cleanups, wfEvents, calls>>

\* after `await this.spawnAgent(...)`: workflow.agents.push(agentId), then
\* waitForAgent runs up to its first await (startTime, first getAgentStatus)
Push(e, k) ==
  /\ call' = NoCall
  /\ e \in 1..Len(execs)
  /\ k \in 1..Len(execs[e].br)
  /\ execs[e].br[k].st = "push"
  /\ LET x == execs[e]
         id == BranchAgent(x, k)
     IN /\ wfObjs' = [wfObjs EXCEPT ![x.wf].agents = Append(@, id)]
        /\ execs' = [execs EXCEPT ![e] = PollOnce(x, k, id)]
  /\ emitted' = << >>
  /\ ret' = NoRet
  /\ CoordUnchanged
  /\ UNCHANGED <<workflows, cleanups, wfEvents, calls>>

\* waitForAgent after its 100 ms sleep, the timeout not yet reached
Poll(e, k) ==
  /\ call' = NoCall
  /\ e \in 1..Len(execs)
  /\ k \in 1..Len(execs[e].br)
  /\ execs[e].br[k].st = "poll"
  /\ Quiescent
  /\ execs' = [execs EXCEPT ![e] = PollOnce(execs[e], k, BranchAgent(execs[e], k))]
  /\ emitted' = << >>
  /\ ret' = NoRet
  /\ CoordUnchanged
  /\ UNCHANGED <<workflows, wfObjs, cleanups, wfEvents, calls>>

\* waitForAgent after its 100 ms sleep, Date.now() - startTime >= timeout
PollTimeout(e, k) ==
  /\ call' = NoCall
  /\ e \in 1..Len(execs)
  /\ k \in 1..Len(execs[e].br)
  /\ execs[e].br[k].st = "poll"
  /\ Quiescent
  /\ execs' = [execs EXCEPT
                 ![e] = Reject(execs[e], k, AgentTimedOut(BranchAgent(execs[e], k)))]
  /\ emitted' = << >>
  /\ ret' = NoRet
  /\ CoordUnchanged
  /\ UNCHANGED <<workflows, wfObjs, cleanups, wfEvents, calls>>

\* variant of the handoff condition that ignores the passResults flag
HandoffDueAlways(w, i) == i < Len(w.tasks)

\* executeSequential: `i < workflow.tasks.length - 1 && task.passResults`
\* (tasks are numbered from 1 here)
HandoffDue(w, i) ==
  i < Len(w.tasks) /\ w.tasks[i].passResults

\* executeSequential after waitForAgent returned: getAgentStatus, record the
\* result, then either sendMessage (and await it), or go on to the next
\* iteration (spawn) or leave the loop
SeqGet(e) ==
  /\ call' = NoCall
  /\ e \in 1..Len(execs)
  /\ execs[e].wf # 0
  /\ wfObjs[execs[e].wf].type = "sequential"
  /\ execs[e].br # << >>
  /\ execs[e].br[1].st = "get"
  /\ ret' = NoRet
  /\ UNCHANGED <<workflows, cleanups, wfEvents, calls>>
  /\ LET x == execs[e]
         w == wfObjs[x.wf]
         t == w.tasks[x.i]
         id == AgentId(w.id, t.agent)
     IN IF id \notin DOMAIN agents
        THEN /\ execs' = [execs EXCEPT ![e] = Reject(x, 1, AgentNotFound(id))]
             /\ emitted' = << >>
             /\ CoordUnchanged
             /\ UNCHANGED wfObjs
        ELSE /\ wfObjs' = [wfObjs EXCEPT
                             ![x.wf].results = SetResult(@, t.agent, agents[id].results)]
             /\ IF HandoffDue(w, x.i)
                THEN LET nextAgentId == AgentId(w.id, w.tasks[x.i + 1].agent)
                     IN IF nextAgentId \notin DOMAIN messageQueues
                        THEN /\ execs' = [execs EXCEPT
                                  ![e] = Reject(x, 1, AgentNotFound(nextAgentId))]
                             /\ emitted' = << >>
                             /\ CoordUnchanged
                        ELSE /\ execs' = [execs EXCEPT ![e].br[1].st = "next"]
                             /\ SetCoord(sendMessage(Coord, id, nextAgentId,
                                                     agents[id].results))
                ELSE IF x.i < Len(w.tasks)
                THEN LET r == SeqSpawn(x, Coord, w, x.i + 1)
                     IN /\ execs' = [execs EXCEPT ![e] = r.x]
                        /\ SetCoord(r.c)
                ELSE /\ execs' = [execs EXCEPT ![e].br[1].st = "resolved",
                                               ![e].pc = "finish"]
                     /\ emitted' = << >>
                     /\ CoordUnchanged

\* executeSequential after `await this.sendMessage(...)`: next iteration
SeqNext(e) ==
  /\ call' = NoCall
  /\ e \in 1..Len(execs)
  /\ execs[e].wf # 0
  /\ wfObjs[execs[e].wf].type = "sequential"
  /\ execs[e].br # << >>
  /\ execs[e].br[1].st = "next"
  /\ LET x == execs[e]
         r == SeqSpawn(x, Coord, wfObjs[x.wf], x.i + 1)
     IN /\ execs' = [execs EXCEPT ![e] = r.x]
        /\ SetCoord(r.c)
  /\ ret' = NoRet
  /\ UNCHANGED <<workflows, wfObjs, cleanups, wfEvents, calls>>

\* variant of the map callback that writes its result into workflow.results
\* as soon as its own wait returned
ParGetStoresResult(e, k) ==
  /\ call' = NoCall
  /\ e \in 1..Len(execs)
  /\ execs[e].wf # 0
  /\ wfObjs[execs[e].wf].type = "parallel"
  /\ k \in 1..Len(execs[e].br)
  /\ execs[e].br[k].st = "get"
  /\ LET x == execs[e]
         id == BranchAgent(x, k)
     IN IF id \notin DOMAIN agents
        THEN /\ execs' = [execs EXCEPT ![e] = Reject(x, k, AgentNotFound(id))]
             /\ UNCHANGED wfObjs
        ELSE /\ execs' = [execs EXCEPT ![e].br[k].st = "resolved",
                                       ![e].br[k].res = agents[id].results]
             /\ wfObjs' = [wfObjs EXCEPT
                  ![x.wf].results = SetResult(@, wfObjs[x.wf].tasks[k].agent,
                                              agents[id].results)]
  /\ emitted' = << >>
  /\ ret' = NoRet
  /\ CoordUnchanged
  /\ UNCHANGED <<workflows, cleanups, wfEvents, calls>>

\* a map callback of executeParallel after waitForAgent returned:
\* getAgentStatus, return { agent, results }
ParGet(e, k) ==
  /\ call' = NoCall
  /\ e \in 1..Len(execs)
  /\ execs[e].wf # 0
  /\ wfObjs[execs[e].wf].type = "parallel"
  /\ k \in 1..Len(execs[e].br)
  /\ execs[e].br[k].st = "get"
  /\ LET x == execs[e]
         id == BranchAgent(x, k)
     IN execs' = [execs EXCEPT
          ![e] = IF id \notin DOMAIN agents
                 THEN Reject(x, k, AgentNotFound(id))
                 ELSE [x EXCEPT !.br[k].st = "resolved",
                                !.br[k].res = agents[id].results]]
  /\ emitted' = << >>
  /\ ret' = NoRet
  /\ CoordUnchanged
  /\ UNCHANGED <<workflows, wfObjs, cleanups, wfEvents, calls>>

\* executeParallel after Promise.all resolved: copy the results in task order
ParJoin(e) ==
  /\ call' = NoCall
  /\ e \in 1..Len(execs)
  /\ execs[e].pc = "par"
  /\ \A k \in 1..Len(execs[e].br) : execs[e].br[k].st = "resolved"
  /\ LET x == execs[e]
         w == wfObjs[x.wf]
     IN wfObjs' = [wfObjs EXCEPT
                     ![x.wf].results = JoinResults(@, w.tasks, x.br, Len(x.br))]
  /\ execs' = [execs EXCEPT ![e].pc = "finish"]
  /\ emitted' = << >>
  /\ ret' = NoRet
  /\ CoordUnchanged
  /\ UNCHANGED <<workflows, cleanups, wfEvents, calls>>

\* ---- executeWorkflow after the strategy settled -------------------------------------
Finish(e) ==
  /\ call' = NoCall
  /\ e \in 1..Len(execs)
  /\ execs[e].pc = "finish"
  /\ LET x == execs[e]
     IN /\ wfObjs' = [wfObjs EXCEPT ![x.wf].status = "completed"]
        /\ wfEvents' = [wfEvents EXCEPT ![x.wf].completed = @ + 1]
        /\ emitted' = << <<"workflow:completed", x.wid, wfObjs[x.wf].results>> >>
        /\ ret' = Returned(Handle(x.wf))
  /\ execs' = [execs EXCEPT ![e].pc = "returned"]
  /\ CoordUnchanged
  /\ UNCHANGED <<workflows, cleanups, calls>>

\* variant of the catch block that marks the workflow failed without storing
\* the message
CatchDropsMessage(e) ==
  /\ call' = NoCall
  /\ e \in 1..Len(execs)
  /\ execs[e].pc = "catch"
  /\ PushesDone(execs[e])
  /\ LET x == execs[e]
     IN /\ wfObjs' = [wfObjs EXCEPT ![x.wf].status = "failed"]
        /\ wfEvents' = [wfEvents EXCEPT ![x.wf].failed = @ + 1]
        /\ emitted' = << <<"workflow:failed", x.wid, x.err>> >>
        /\ ret' = Raised(x.err)
  /\ execs' = [execs EXCEPT ![e].pc = "raised"]
  /\ CoordUnchanged
  /\ UNCHANGED <<workflows, cleanups, calls>>

RECURSIVE TerminateAll(_, _, _)
TerminateAll(c, list, k) ==
  IF k = 0 THEN c ELSE terminateAgent(TerminateAll(c, list, k - 1), list[k])

\* variant of the catch block that also terminates the agents of the workflow
CatchTerminatesAgents(e) ==
  /\ call' = NoCall
  /\ e \in 1..Len(execs)
  /\ execs[e].pc = "catch"
  /\ PushesDone(execs[e])
  /\ LET x == execs[e]
         c == TerminateAll(Coord, wfObjs[x.wf].agents, Len(wfObjs[x.wf].agents))
     IN /\ wfObjs' = [wfObjs EXCEPT ![x.wf].status = "failed", ![x.wf].error = x.err]
        /\ wfEvents' = [wfEvents EXCEPT ![x.wf].failed = @ + 1]
        /\ SetCoord([c EXCEPT !.emitted = Append(@, <<"workflow:failed", x.wid, x.err>>)])
        /\ ret' = Raised(x.err)
  /\ execs' = [execs EXCEPT ![e].pc = "raised"]
  /\ UNCHANGED <<workflows, cleanups, calls>>

Catch(e) ==
  /\ call' = NoCall
  /\ e \in 1..Len(execs)
  /\ execs[e].pc = "catch"
  /\ PushesDone(execs[e])
  /\ LET x == execs[e]
     IN /\ wfObjs' = [wfObjs EXCEPT ![x.wf].status = "failed", ![x.wf].error = x.err]
        /\ wfEvents' = [wfEvents EXCEPT ![x.wf].failed = @ + 1]
        /\ emitted' = << <<"workflow:failed", x.wid, x.err>> >>
        /\ ret' = Raised(x.err)
  /\ execs' = [execs EXCEPT ![e].pc = "raised"]
  /\ CoordUnchanged
  /\ UNCHANGED <<workflows, cleanups, calls>>

\* ---- BaseFramework.cleanup(workflowId) -----------------------------------------------
\* the executions of workflow object o have all settled
AllSettled(o) ==
  \A e \in 1..Len(execs) : execs[e].wf = o => execs[e].pc \in {"returned", "raised"}

\* the ids in BaseFramework.workflows in insertion order (the callers that
\* use cleanup() use one workflow id)
WorkflowOrder == SelectSeq(<<"w">>, LAMBDA wid : workflows[wid] # 0)

\* cleanup(workflowId) up to its first await: the first terminateAgent, or the
\* delete when the workflow is unknown or has no agents.  cl is the list of
\* cleanup activations it is added to; outer tells whether a cleanup() without
\* id awaits it; settled records whether the workflow's executions had settled.
CleanupStart(cl, wid, outer) ==
  LET o == workflows[wid]
  IN IF o # 0 /\ wfObjs[o].agents # << >>
     THEN /\ SetCoord(terminateAgent(Coord, wfObjs[o].agents[1]))
          /\ cleanups' = Append(cl, [wid |-> wid, wf |-> o, cursor |-> 1,
                                     pc |-> "loop", outer |-> outer,
                                     settled |-> AllSettled(o)])
          /\ UNCHANGED workflows
     ELSE /\ workflows' = [workflows EXCEPT ![wid] = 0]
          /\ cleanups' = Append(cl, [wid |-> wid, wf |-> o, cursor |-> 0,
                                     pc |-> "done", outer |-> outer,
                                     settled |-> AllSettled(o)])
          /\ emitted' = << >>
          /\ CoordUnchanged

Cleanup(wid) ==
  /\ call' = <<"cleanup", wid>>
  /\ calls' = calls + 1
  /\ ret' = NoRet
  /\ UNCHANGED <<wfObjs, execs, wfEvents>>
  /\ CleanupStart(cleanups, wid, "none")

\* variant of the continuation that deletes the record without terminating
\* the remaining agents
CleanupStepDeletesEarly(c) ==
  /\ call' = NoCall
  /\ c \in 1..Len(cleanups)
  /\ cleanups[c].pc = "loop"
  /\ ret' = NoRet
  /\ UNCHANGED <<wfObjs, execs, wfEvents, calls>>
  /\ workflows' = [workflows EXCEPT ![cleanups[c].wid] = 0]
  /\ cleanups' = [cleanups EXCEPT ![c].pc = "done"]
  /\ emitted' = << >>
  /\ CoordUnchanged

\* after `await this.coordinator.terminateAgent(agentId)`: the next element of
\* workflow.agents (the array is read live), or the delete after the loop
CleanupStep(c) ==
  /\ call' = NoCall
  /\ c \in 1..Len(cleanups)
  /\ cleanups[c].pc = "loop"
  /\ ret' = NoRet
  /\ UNCHANGED <<wfObjs, execs, wfEvents, calls>>
  /\ LET cl == cleanups[c]
         list == wfObjs[cl.wf].agents
     IN IF cl.cursor < Len(list)
        THEN /\ SetCoord(terminateAgent(Coord, list[cl.cursor + 1]))
             /\ cleanups' = [cleanups EXCEPT ![c].cursor = @ + 1]
             /\ UNCHANGED workflows
        ELSE /\ workflows' = [workflows EXCEPT ![cl.wid] = 0]
             /\ cleanups' = [cleanups EXCEPT ![c].pc = "done"]
             /\ emitted' = << >>
             /\ CoordUnchanged

\* ---- BaseFramework.cleanup() -----------------------------------------------------------
\* up to its first await: cleanup(id) of the first tracked workflow, run up to
\* its own first await; nothing when no workflow is tracked
CleanupAll ==
  /\ call' = <<"cleanup">>
  /\ calls' = calls + 1
  /\ ret' = NoRet
  /\ UNCHANGED <<wfObjs, execs, wfEvents>>
  /\ IF WorkflowOrder = << >>
     THEN /\ cleanups' = Append(cleanups, [wid |-> "none", wf |-> 0, cursor |-> 0,
                                           pc |-> "done", outer |-> "done",
                                           settled |-> TRUE])
          /\ emitted' = << >>
          /\ CoordUnchanged
          /\ UNCHANGED workflows
     ELSE CleanupStart(cleanups, Head(WorkflowOrder), "await")

\* after `await this.cleanup(id)`: the Map iterator is live, so a workflow
\* created after the delete is visited too; otherwise cleanup() returns
CleanupAllStep(c) ==
  /\ call' = NoCall
  /\ c \in 1..Len(cleanups)
  /\ cleanups[c].pc = "done"
  /\ cleanups[c].outer = "await"
  /\ ret' = NoRet
  /\ UNCHANGED <<wfObjs, execs, wfEvents, calls>>
  /\ IF WorkflowOrder = << >>
     THEN /\ cleanups' = [cleanups EXCEPT ![c].outer = "done"]
          /\ emitted' = << >>
          /\ CoordUnchanged
          /\ UNCHANGED workflows
     ELSE CleanupStart([cleanups EXCEPT ![c].outer = "passed"],
                       Head(WorkflowOrder), "await")

\* BaseFramework.getWorkflowStatus
getWorkflowStatus(wid) ==
  IF workflows[wid] = 0 THEN Null
  ELSE LET w == wfObjs[workflows[wid]]
       IN [id |-> w.id, type |-> w.type, status |-> w.status,
           completed |-> w.status = "completed", failed |-> w.status = "failed",
           error |-> w.error]

\* ---- AgentCoordinator.cleanup() -----------------------------------------------------
\* up to its first await: the first terminateAgent, or the coordinator:cleanup
\* event when the registry is empty
CoordinatorCleanup ==
  /\ call' = <<"coordinator.cleanup">>
  /\ calls' = calls + 1
  /\ ret' = NoRet
  /\ UNCHANGED <<workflows, wfObjs, execs, cleanups, wfEvents>>
  /\ IF agentOrder = << >>
     THEN /\ coordCleanups' = Append(coordCleanups, [pending |-> << >>, pc |-> "done"])
          /\ emitted' = << <<"coordinator:cleanup">> >>
          /\ UNCHANGED <<agents, messageQueues, timers, completedEv, agentOrder, doneOrder>>
     ELSE SetCoord(terminateAgent(
            [Coord EXCEPT !.iters = Append(@, [pending |-> agentOrder, pc |-> "loop"])],
            Head(agentOrder)))

\* after `await this.terminateAgent(agentId)`: the next entry of the Map, or
\* the coordinator:cleanup event after the loop
CoordinatorCleanupStep(c) ==
  /\ call' = NoCall
  /\ c \in 1..Len(coordCleanups)
  /\ coordCleanups[c].pc = "loop"
  /\ ret' = NoRet
  /\ UNCHANGED <<workflows, wfObjs, execs, cleanups, wfEvents, calls>>
  /\ IF coordCleanups[c].pending = << >>
     THEN /\ coordCleanups' = [coordCleanups EXCEPT ![c].pc = "done"]
          /\ emitted' = << <<"coordinator:cleanup">> >>
          /\ UNCHANGED <<agents, messageQueues, timers, completedEv, agentOrder, doneOrder>>
     ELSE SetCoord(terminateAgent(Coord, Head(coordCleanups[c].pending)))

\* ---- direct calls of the coordinator by other callers ----------------------------------
\* variant of spawnAgent that emits agent:spawned before its duplicate check
CallSpawnAgentEmitsFirst(id, task) ==
  /\ call' = <<"spawnAgent", id>>
  /\ calls' = calls + 1
  /\ IF spawnRejected(Coord, id)
     THEN /\ ret' = Raised(AlreadyExists(id))
          /\ emitted' = << <<"agent:spawned", id, task>> >>
          /\ CoordUnchanged
     ELSE /\ ret' = Returned(id)
          /\ SetCoord(spawnAgent(Coord, id, task, NoOptions))
  /\ UNCHANGED <<workflows, wfObjs, execs, cleanups, wfEvents>>

CallSpawnAgent(id, task) ==
  /\ call' = <<"spawnAgent", id>>
  /\ calls' = calls + 1
  /\ IF spawnRejected(Coord, id)
     THEN /\ ret' = Raised(AlreadyExists(id))
          /\ emitted' = << >>
          /\ CoordUnchanged
     ELSE /\ ret' = Returned(id)
          /\ SetCoord(spawnAgent(Coord, id, task, NoOptions))
  /\ UNCHANGED <<workflows, wfObjs, execs, cleanups, wfEvents>>

\* completeAgent called by another caller with a result of its own
ExternalResult == [completed |-> TRUE, output |-> <<"external">>]

CallCompleteAgent(id) ==
  /\ call' = <<"completeAgent", id>>
  /\ calls' = calls + 1
  /\ ret' = Returned(id)
  /\ SetCoord(completeAgent(Coord, id, ExternalResult))
  /\ UNCHANGED <<workflows, wfObjs, execs, cleanups, wfEvents>>

CallTerminateAgent(id) ==
  /\ call' = <<"terminateAgent", id>>
  /\ calls' = calls + 1
  /\ ret' = Returned(id)
  /\ SetCoord(terminateAgent(Coord, id))
  /\ UNCHANGED <<workflows, wfObjs, execs, cleanups, wfEvents>>

Note == [note |-> "hello"]

\* variant of sendMessage that also requires the sender to be registered
CallSendMessageChecksSender(from, to, message) ==
  /\ call' = <<"sendMessage", from, to>>
  /\ calls' = calls + 1
  /\ IF to \notin DOMAIN messageQueues \/ from \notin DOMAIN agents
     THEN /\ ret' = Raised(AgentNotFound(IF to \notin DOMAIN messageQueues THEN to ELSE from))
          /\ emitted' = << >>
          /\ CoordUnchanged
     ELSE /\ ret' = Returned(to)
          /\ SetCoord(sendMessage(Coord, from, to, message))
  /\ UNCHANGED <<workflows, wfObjs, execs, cleanups, wfEvents>>

CallSendMessage(from, to, message) ==
  /\ call' = <<"sendMessage", from, to>>
  /\ calls' = calls + 1
  /\ IF to \notin DOMAIN messageQueues
     THEN /\ ret' = Raised(AgentNotFound(to))
          /\ emitted' = << >>
          /\ CoordUnchanged
     ELSE /\ ret' = Returned(to)
          /\ SetCoord(sendMessage(Coord, from, to, message))
  /\ UNCHANGED <<workflows, wfObjs, execs, cleanups, wfEvents>>

Next ==
  \/ calls < MaxCalls /\ \E wid \in WorkflowIds, cfg \in Configs : CreateWorkflow(wid, cfg)
  \/ calls < MaxCalls /\ \E wid \in WorkflowIds : ExecuteWorkflow(wid)
  \/ \E e \in 1..Len(execs), k \in 1..2 : Push(e, k)
  \/ \E e \in 1..Len(execs), k \in 1..2 : Poll(e, k)
  \/ \E e \in 1..Len(execs), k \in 1..2 : PollTimeout(e, k)
  \/ \E e \in 1..Len(execs) : SeqGet(e)
  \/ \E e \in 1..Len(execs) : SeqNext(e)
  \/ \E e \in 1..Len(execs), k \in 1..2 : ParGet(e, k)
  \/ \E e \in 1..Len(execs) : ParJoin(e)
  \/ \E e \in 1..Len(execs) : Finish(e)
  \/ \E e \in 1..Len(execs) : Catch(e)
  \/ TimerFire
  \/ calls < MaxCalls /\ \E wid \in WorkflowIds : Cleanup(wid)
  \/ \E c \in 1..Len(cleanups) : CleanupStep(c)
  \/ calls < MaxCalls /\ CleanupAll
  \/ \E c \in 1..Len(cleanups) : CleanupAllStep(c)
  \/ calls < MaxCalls /\ CoordinatorCleanup
  \/ \E c \in 1..Len(coordCleanups) : CoordinatorCleanupStep(c)
  \/ calls < MaxCalls /\ \E id \in AgentIds : CallSpawnAgent(id, AdhocTask)
  \/ calls < MaxCalls /\ \E id \in AgentIds : CallTerminateAgent(id)
  \/ calls < MaxCalls /\ \E id \in AgentIds : CallCompleteAgent(id)
  \/ calls < MaxCalls /\ \E from \in AgentIds, to \in AgentIds : CallSendMessage(from, to, Note)

Spec == Init /\ [][Next]_vars

\* ---- a framework used by one caller, with no wait timing out ------------------------------
\* The caller creates and executes workflows and nothing else: no direct
\* coordinator call, no cleanup, and every wait sees its agent complete before
\* its timeout.  (The continuation after a delivered handoff is not listed: with
\* no other caller spawning the recipient first, no handoff is delivered.)
Continue ==
  \/ \E e \in 1..Len(execs), k \in 1..2 : Push(e, k)
  \/ \E e \in 1..Len(execs), k \in 1..2 : Poll(e, k)
  \/ \E e \in 1..Len(execs) : SeqGet(e)
  \/ \E e \in 1..Len(execs), k \in 1..2 : ParGet(e, k)
  \/ \E e \in 1..Len(execs) : ParJoin(e)
  \/ \E e \in 1..Len(execs) : Finish(e)
  \/ \E e \in 1..Len(execs) : Catch(e)
  \/ TimerFire

NextQuiet ==
  \/ calls < MaxCalls /\ \E wid \in WorkflowIds, cfg \in Configs : CreateWorkflow(wid, cfg)
  \/ calls < MaxCalls /\ \E wid \in WorkflowIds : ExecuteWorkflow(wid)
  \/ Continue

\* the event loop runs every queued continuation and every due timer
FairSpec == Init /\ [][NextQuiet]_vars /\ WF_vars(Continue)

\* ---- the platform with all its callers, run by the event loop ------------------------
\* the continuations that Continue does not list
Settle ==
  \/ \E e \in 1..Len(execs) : SeqNext(e)
  \/ \E c \in 1..Len(cleanups) : CleanupStep(c)
  \/ \E c \in 1..Len(cleanups) : CleanupAllStep(c)
  \/ \E c \in 1..Len(coordCleanups) : CoordinatorCleanupStep(c)

\* the program's own state, without the observations of the last step
progVars ==
  <<agents, messageQueues, timers, workflows, wfObjs, execs, cleanups, agentOrder,
    coordCleanups>>

\* every queued continuation and every due timer is run; whether a wait
\* reaches its timeout, and which calls callers make, is left open
LiveSpec == Init /\ [][Next]_vars /\ WF_progVars(Continue \/ Settle)

\* ---- properties ------------------------------------------------------------------------

Settled(x) == x.pc \in {"returned", "raised"}
TerminalStatus(st) == st \in {"completed", "failed"}

\* the only calls issued so far are one createWorkflow and one executeWorkflow
Alone == calls = 2 /\ Len(execs) = 1 /\ Len(wfObjs) = 1

TimedOut(x) == \E k \in 1..Len(x.br) : x.br[k].err # NoError /\ x.br[k].err[1] = "Agent timed out"

PassPlan == <<Task("A", TRUE), Task("B", FALSE)>>

\* C1: once a workflow's status is completed or failed, no later step changes it.
C1_TerminalStatusIsFinal ==
  [][\A o \in 1..Len(wfObjs) :
       TerminalStatus(wfObjs[o].status) => wfObjs'[o].status = wfObjs[o].status]_vars

\* C2: a sequential workflow [A, B] with A.passResults, run with no other caller
\* and no timeout, ends with exactly one message in B's inbox, from A's agent id
\* and carrying A's completed result.
C2_HandoffDelivered ==
  \A e \in 1..Len(execs) :
    (/\ Alone
     /\ Settled(execs[e])
     /\ execs[e].wf # 0
     /\ ~TimedOut(execs[e])
     /\ wfObjs[execs[e].wf].type = "sequential"
     /\ wfObjs[execs[e].wf].tasks = PassPlan)
    => LET wid == wfObjs[execs[e].wf].id
       IN getMessages(AgentId(wid, "B")) =
            << [from |-> AgentId(wid, "A"), to |-> AgentId(wid, "B"),
                message |-> ResultOf(AgentId(wid, "A"), TaskOf("A"))] >>

DistinctNames(tasks) ==
  \A i, j \in 1..Len(tasks) : i # j => tasks[i].agent # tasks[j].agent

\* C3: a sequential workflow with distinct agent names in which a non-last task
\* sets passResults, run with no other caller and no timeout, settles by
\* returning, with status completed and one result per task.
C3_PassResultsWorkflowCompletes ==
  \A e \in 1..Len(execs) :
    (/\ Alone
     /\ Settled(execs[e])
     /\ execs[e].wf # 0
     /\ ~TimedOut(execs[e])
     /\ wfObjs[execs[e].wf].type = "sequential"
     /\ DistinctNames(wfObjs[execs[e].wf].tasks)
     /\ \E i \in 1..(Len(wfObjs[execs[e].wf].tasks) - 1) :
          wfObjs[execs[e].wf].tasks[i].passResults)
    => /\ execs[e].pc = "returned"
       /\ wfObjs[execs[e].wf].status = "completed"
       /\ Len(wfObjs[execs[e].wf].results) = Len(wfObjs[execs[e].wf].tasks)

\* C4: when a workflow, executed once, enters a terminal status (not by a wait
\* timeout), results has an entry for every task whose agent, spawned by the
\* workflow, is completed at that moment.
C4_ResultsCoverCompletedTasks ==
  [][\A e \in 1..Len(execs') :
       LET x == execs'[e]
       IN (/\ x.wf # 0
           /\ x.wf <= Len(wfObjs)
           /\ Len(execs') = 1
           /\ ~TerminalStatus(wfObjs[x.wf].status)
           /\ TerminalStatus(wfObjs'[x.wf].status)
           /\ ~TimedOut(x))
          => \A t \in 1..Len(wfObjs'[x.wf].tasks) :
               LET name == wfObjs'[x.wf].tasks[t].agent
                   id == AgentId(wfObjs'[x.wf].id, name)
               IN (/\ \E j \in 1..Len(wfObjs'[x.wf].agents) : wfObjs'[x.wf].agents[j] = id
                   /\ id \in DOMAIN agents'
                   /\ agents'[id].status = "completed")
                  => HasResult(wfObjs'[x.wf].results, name)]_vars

\* C5: every error of a per-task chain reaches the catch of executeWorkflow, and
\* when executeWorkflow raises, the workflow is failed, its error is the raised
\* (non-empty) message, and the step leaves results as they were.
C5_ErrorFailsWorkflow ==
  /\ [](\A e \in 1..Len(execs) :
          (\E k \in 1..Len(execs[e].br) : execs[e].br[k].st = "rejected")
          => /\ execs[e].pc \in {"catch", "raised"}
             /\ \E k \in 1..Len(execs[e].br) :
                  execs[e].br[k].st = "rejected" /\ execs[e].err = execs[e].br[k].err
             /\ execs[e].err # NoError)
  /\ [][\A e \in 1..Len(execs') :
          (/\ execs'[e].wf # 0
           /\ execs'[e].pc = "raised"
           /\ (e > Len(execs) \/ execs[e].pc # "raised"))
          => LET o == execs'[e].wf
             IN /\ wfObjs'[o].status = "failed"
                /\ wfObjs'[o].error = execs'[e].err
                /\ execs'[e].err # NoError
                /\ ret' = Raised(execs'[e].err)
                /\ wfObjs'[o].results = wfObjs[o].results]_vars

\* a workflow failed by a task-level error, with the results collected before it
C5_Witness ==
  \E e \in 1..Len(execs) :
    /\ execs[e].pc = "raised"
    /\ execs[e].wf # 0
    /\ execs[e].br # << >>
    /\ execs[e].br[1].st = "rejected"
    /\ wfObjs[execs[e].wf].status = "failed"
    /\ wfObjs[execs[e].wf].error = execs[e].err
    /\ wfObjs[execs[e].wf].results # << >>

\* C6: no step of executeWorkflow removes an agent or an inbox, and when
\* executeWorkflow has settled with no other caller involved, every agent in the
\* workflow's agents list is in the registry with its inbox.
C6_ExecuteRemovesNothing ==
  /\ [][execs' # execs =>
          /\ DOMAIN agents \subseteq DOMAIN agents'
          /\ DOMAIN messageQueues \subseteq DOMAIN messageQueues']_vars
  /\ [](\A e \in 1..Len(execs) :
          (Alone /\ Settled(execs[e]) /\ execs[e].wf # 0)
          => \A j \in 1..Len(wfObjs[execs[e].wf].agents) :
               /\ wfObjs[execs[e].wf].agents[j] \in DOMAIN agents
               /\ wfObjs[execs[e].wf].agents[j] \in DOMAIN messageQueues)

\* a failed workflow whose spawned agent is still registered
C6_Witness ==
  \E e \in 1..Len(execs) :
    /\ execs[e].pc = "raised"
    /\ execs[e].wf # 0
    /\ wfObjs[execs[e].wf].agents # << >>
    /\ \A j \in 1..Len(wfObjs[execs[e].wf].agents) :
         wfObjs[execs[e].wf].agents[j] \in DOMAIN agents

\* C7: a workflow record emits at most one terminal event (workflow:completed
\* or workflow:failed) over its lifetime.
C7_OneTerminalEvent ==
  \A o \in 1..Len(wfObjs) : wfEvents[o].completed + wfEvents[o].failed <= 1

\* C8: at most one agent:completed is emitted for an agent after its
\* agent:spawned, also when the id was terminated and spawned again.
C8_OneCompletionPerSpawn ==
  \A id \in AgentIds : completedEv[id] <= 1

\* C9: an agent becomes completed only from status active.
C9_ActiveBeforeCompleted ==
  [][\A id \in DOMAIN agents \cap DOMAIN agents' :
       (agents[id].status # "completed" /\ agents'[id].status = "completed")
       => agents[id].status = "active"]_vars

\* C10: while an agent stays in the registry its status never regresses:
\* completed stays completed, failed never becomes completed.
C10_NoStatusRegression ==
  [][\A id \in DOMAIN agents \cap DOMAIN agents' :
       /\ agents[id].status = "completed" => agents'[id].status = "completed"
       /\ agents[id].status = "failed" => agents'[id].status # "completed"]_vars

\* a completed agent on which a second spawnAgent was just rejected
C10_Witness ==
  \E id \in DOMAIN agents :
    /\ agents[id].status = "completed"
    /\ ret = Raised(AlreadyExists(id))

\* number of events of one kind about one agent id in a list of events
CountEvents(ev, kind, id) ==
  Cardinality({j \in 1..Len(ev) : ev[j][1] = kind /\ ev[j][2] = id})

HasTimer(id) == \E j \in 1..Len(timers) : timers[j].agentId = id

\* C11: a spawnAgent call succeeds exactly when the id is not in the registry; a
\* call on a registered id raises 'already exists', leaves the registry (task,
\* status, options, results of every agent), the inboxes and the pending
\* completions as they were and emits nothing; no step emits agent:spawned for
\* an id that is registered, nor twice for one id.
C11_DuplicateSpawnRejected ==
  [][\A id \in AgentIds :
       /\ call' = <<"spawnAgent", id>> =>
            IF id \in DOMAIN agents
            THEN /\ ret' = Raised(AlreadyExists(id))
                 /\ agents' = agents
                 /\ messageQueues' = messageQueues
                 /\ timers' = timers
                 /\ emitted' = << >>
            ELSE /\ ret' = Returned(id)
                 /\ id \in DOMAIN agents'
                 /\ CountEvents(emitted', "agent:spawned", id) = 1
       /\ CountEvents(emitted', "agent:spawned", id) <= 1
       /\ CountEvents(emitted', "agent:spawned", id) = 1 => id \notin DOMAIN agents]_vars

\* a rejected second spawnAgent on an idle agent with a message in its inbox and
\* its completion pending
C11_Witness ==
  \E id \in DOMAIN agents :
    /\ call = <<"spawnAgent", id>>
    /\ ret = Raised(AlreadyExists(id))
    /\ agents[id].status = "idle"
    /\ HasTimer(id)
    /\ messageQueues[id] # << >>

\* C12: terminateAgent never raises; on a registered id it removes the agent and
\* its inbox and emits agent:terminated once; on an id that is not registered
\* it changes nothing and emits nothing.
C12_TerminateIdempotent ==
  [][\A id \in AgentIds :
       call' = <<"terminateAgent", id>> =>
         /\ ret' = Returned(id)
         /\ id \notin DOMAIN agents'
         /\ id \notin DOMAIN messageQueues'
         /\ IF id \in DOMAIN agents
            THEN /\ agents' = MapDelete(agents, id)
                 /\ messageQueues' = MapDelete(messageQueues, id)
                 /\ emitted' = << <<"agent:terminated", id>> >>
            ELSE /\ agents' = agents
                 /\ messageQueues' = messageQueues
                 /\ emitted' = << >>
         /\ UNCHANGED <<timers, workflows, wfObjs, execs, cleanups>>]_vars

\* a second terminateAgent on an id that was spawned and terminated before
C12_Witness ==
  \E id \in AgentIds :
    /\ call = <<"terminateAgent", id>>
    /\ id \notin DOMAIN agents
    /\ emitted = << >>
    /\ HasTimer(id)

\* C13: the ids in the registry are the ids that have an inbox; an inbox appears
\* only in a step that emits agent:spawned for its id and disappears only in a
\* step that emits agent:terminated for it.
C13_InboxIffRegistered ==
  /\ [](DOMAIN agents = DOMAIN messageQueues)
  /\ [][\A id \in AgentIds :
          /\ (id \notin DOMAIN messageQueues /\ id \in DOMAIN messageQueues')
             => CountEvents(emitted', "agent:spawned", id) = 1
          /\ (id \in DOMAIN messageQueues /\ id \notin DOMAIN messageQueues')
             => CountEvents(emitted', "agent:terminated", id) = 1]_vars

\* a coordinator cleanup under way: one agent terminated, another still
\* registered with its inbox
C13_Witness ==
  /\ \E c \in 1..Len(coordCleanups) : coordCleanups[c].pc = "loop"
  /\ Cardinality(DOMAIN agents) = 1
  /\ DOMAIN messageQueues = DOMAIN agents
  /\ CountEvents(emitted, "agent:terminated", CHOOSE id \in AgentIds : id \notin DOMAIN agents) = 1

\* C14: sendMessage to an id without inbox raises 'not found', changes no inbox
\* and emits nothing; to an id with an inbox it appends the message to that
\* inbox, changes no other inbox and emits message:sent, whether or not the
\* sender is registered.
C14_SendMessageContract ==
  [][\A from \in AgentIds, to \in AgentIds :
       call' = <<"sendMessage", from, to>> =>
         IF to \in DOMAIN messageQueues
         THEN LET m == [from |-> from, to |-> to, message |-> Note]
              IN /\ ret' = Returned(to)
                 /\ messageQueues' = [messageQueues EXCEPT ![to] = Append(@, m)]
                 /\ emitted' = << <<"message:sent", m>> >>
         ELSE /\ ret' = Raised(AgentNotFound(to))
              /\ messageQueues' = messageQueues
              /\ emitted' = << >>]_vars

\* a message delivered on behalf of a sender that is not in the registry
C14_Witness ==
  \E from \in AgentIds, to \in AgentIds :
    /\ call = <<"sendMessage", from, to>>
    /\ from \notin DOMAIN agents
    /\ to \in DOMAIN messageQueues
    /\ Len(messageQueues[to]) = 1
    /\ messageQueues[to][1].from = from

\* the message:sent events of a list of events that are addressed to id, in order
RECURSIVE SentTo(_, _)
SentTo(ev, id) ==
  IF ev = << >> THEN << >>
  ELSE IF Head(ev)[1] = "message:sent" /\ Head(ev)[2].to = id
       THEN <<Head(ev)[2]>> \o SentTo(Tail(ev), id)
       ELSE SentTo(Tail(ev), id)

\* C15: while an agent is registered, every step leaves what getMessages
\* returned for it as a prefix of what it returns afterwards, and the added
\* part is exactly the messages sent to it in that step, in sending order; a
\* freshly spawned agent has an empty inbox.
C15_InboxFifo ==
  [][\A id \in AgentIds :
       /\ (id \in DOMAIN agents /\ id \in DOMAIN agents')
          => getMessages(id)' = getMessages(id) \o SentTo(emitted', id)
       /\ (id \notin DOMAIN agents /\ id \in DOMAIN agents')
          => getMessages(id)' = << >>]_vars

\* an inbox holding two messages of different senders in the order sent
C15_Witness ==
  \E id \in DOMAIN messageQueues :
    /\ Len(getMessages(id)) = 2
    /\ getMessages(id)[1].from # getMessages(id)[2].from
    /\ SentTo(emitted, id) = <<getMessages(id)[2]>>

KnownTypes == {"sequential", "parallel"}

\* C16: every workflow record that createWorkflow stored has a known strategy
\* as its type (a createWorkflow with any other type stores nothing).
C16_UnknownTypeNotStored ==
  \A wid \in WorkflowIds :
    workflows[wid] # 0 => wfObjs[workflows[wid]].type \in KnownTypes

\* C17: executeWorkflow on an id with no workflow record raises 'not found' and
\* leaves the workflow map, every workflow object, the registry, the inboxes and
\* the pending completions as they were, and emits nothing.
C17_ExecuteUnknownChangesNothing ==
  [][\A wid \in WorkflowIds :
       (call' = <<"executeWorkflow", wid>> /\ workflows[wid] = 0)
       => /\ ret' = Raised(WorkflowNotFound(wid))
          /\ emitted' = << >>
          /\ UNCHANGED <<workflows, wfObjs, wfEvents, agents, messageQueues, timers>>]_vars

\* executeWorkflow raised 'not found' with an agent registered and a workflow
\* object created earlier
C17_Witness ==
  \E wid \in WorkflowIds :
    /\ call = <<"executeWorkflow", wid>>
    /\ ret = Raised(WorkflowNotFound(wid))
    /\ workflows[wid] = 0
    /\ (DOMAIN agents # {} \/ wfObjs # << >>)

\* C18: an executeWorkflow on a workflow whose status is no longer initialized
\* (running or terminal) is rejected: it raises, and changes no workflow
\* object, agent, inbox or pending completion and emits nothing.
C18_SecondExecuteRejected ==
  [][\A wid \in WorkflowIds :
       (/\ call' = <<"executeWorkflow", wid>>
        /\ workflows[wid] # 0
        /\ wfObjs[workflows[wid]].status # "initialized")
       => /\ ret'[1] = "raised"
          /\ emitted' = << >>
          /\ UNCHANGED <<wfObjs, wfEvents, agents, messageQueues, timers>>]_vars

\* the spawn of chain k of activation x was rejected
SpawnFailed(x, k) ==
  x.br[k].err # NoError /\ x.br[k].err[1] = "Agent already exists"

\* chain k of activation x is past workflow.agents.push
Pushed(x, k) == x.br[k].st \notin {"spawn", "push"} /\ ~SpawnFailed(x, k)

\* the tasks of activation x whose agent is id, spawned with success and past
\* the push: for executeSequential the tasks of the finished iterations and
\* the current one, for executeParallel one chain per task
PushedTasks(x, id) ==
  IF x.wf = 0 THEN {}
  ELSE LET w == wfObjs[x.wf]
       IN IF w.type = "sequential"
          THEN {t \in 1..x.i : /\ AgentId(w.id, w.tasks[t].agent) = id
                               /\ (t < x.i \/ Pushed(x, 1))}
          ELSE {k \in 1..Len(x.br) : /\ AgentId(w.id, w.tasks[k].agent) = id
                                     /\ Pushed(x, k)}

RECURSIVE SumPushed(_, _, _)
SumPushed(o, id, e) ==
  IF e = 0 THEN 0
  ELSE SumPushed(o, id, e - 1)
       + (IF execs[e].wf = o THEN Cardinality(PushedTasks(execs[e], id)) ELSE 0)

Occurrences(list, id) == Cardinality({j \in 1..Len(list) : list[j] = id})

NoneRejected(x) == \A k \in 1..Len(x.br) : x.br[k].st # "rejected"

\* C20: a parallel workflow with distinct agent names, run with no other caller,
\* that has settled with none of its task chains failed or timed out, has
\* returned with status completed and exactly one results entry per task, the
\* entry of a task being the result of that task's agent.
C20_ParallelCollectsAll ==
  \A e \in 1..Len(execs) :
    (/\ Alone
     /\ execs[e].wf # 0
     /\ wfObjs[execs[e].wf].type = "parallel"
     /\ DistinctNames(wfObjs[execs[e].wf].tasks)
     /\ Settled(execs[e])
     /\ NoneRejected(execs[e]))
    => LET w == wfObjs[execs[e].wf]
       IN /\ execs[e].pc = "returned"
          /\ w.status = "completed"
          /\ Len(w.results) = Len(w.tasks)
          /\ \A t \in 1..Len(w.tasks) :
               Cardinality({j \in 1..Len(w.results) :
                 /\ w.results[j].agent = w.tasks[t].agent
                 /\ w.results[j].results =
                      ResultOf(AgentId(w.id, w.tasks[t].agent), w.tasks[t].task)}) = 1

\* a completed parallel workflow of two tasks holding both results
C20_Witness ==
  \E e \in 1..Len(execs) :
    /\ execs[e].pc = "returned"
    /\ execs[e].wf # 0
    /\ wfObjs[execs[e].wf].type = "parallel"
    /\ wfObjs[execs[e].wf].status = "completed"
    /\ Len(wfObjs[execs[e].wf].results) = 2
    /\ wfObjs[execs[e].wf].results[1].agent # wfObjs[execs[e].wf].results[2].agent

\* the position of the entry of agent name in results (0 when it has none)
ResultPos(results, name) ==
  IF HasResult(results, name)
  THEN CHOOSE j \in 1..Len(results) : results[j].agent = name
  ELSE 0

\* C21: when a parallel workflow with distinct agent names has returned, the
\* entries of results are in the order in which its agents completed: if agent
\* X completed before agent Y, the entry of X precedes the entry of Y.
C21_ResultsInCompletionOrder ==
  \A e \in 1..Len(execs) :
    (/\ execs[e].pc = "returned"
     /\ execs[e].wf # 0
     /\ Len(execs) = 1
     /\ wfObjs[execs[e].wf].type = "parallel"
     /\ DistinctNames(wfObjs[execs[e].wf].tasks))
    => \A i, j \in 1..Len(doneOrder) :
         (/\ i < j
          /\ doneOrder[i][1] = execs[e].wid
          /\ doneOrder[j][1] = execs[e].wid
          /\ HasResult(wfObjs[execs[e].wf].results, doneOrder[i][2])
          /\ HasResult(wfObjs[execs[e].wf].results, doneOrder[j][2]))
         => ResultPos(wfObjs[execs[e].wf].results, doneOrder[i][2])
              < ResultPos(wfObjs[execs[e].wf].results, doneOrder[j][2])

\* some agent becomes completed in this step
SomeAgentCompletes ==
  \E id \in DOMAIN agents \cap DOMAIN agents' :
    agents[id].status # "completed" /\ agents'[id].status = "completed"

\* C22: the step that makes a parallel workflow failed removes no agent and no
\* inbox; once an execution of a parallel workflow has raised, the later steps
\* of its remaining task chains leave the workflow's status, error and results
\* as they are; and the completion of an agent leaves a failed parallel
\* workflow unchanged.
C22_FailsFastKeepsSiblings ==
  [][\A o \in 1..Len(wfObjs) :
       wfObjs[o].type = "parallel" =>
         /\ (wfObjs[o].status # "failed" /\ wfObjs'[o].status = "failed")
            => (agents' = agents /\ messageQueues' = messageQueues)
         /\ (wfObjs[o].status = "failed" /\ SomeAgentCompletes)
            => wfObjs'[o] = wfObjs[o]
         /\ \A e \in 1..Len(execs) :
              (execs[e].wf = o /\ execs[e].pc = "raised" /\ execs'[e] # execs[e])
              => /\ wfObjs'[o].status = wfObjs[o].status
                 /\ wfObjs'[o].error = wfObjs[o].error
                 /\ wfObjs'[o].results = wfObjs[o].results]_vars

\* a parallel workflow that is failed while the wait on a sibling agent, still
\* registered and idle, goes on
C22_Witness ==
  \E e \in 1..Len(execs) :
    /\ execs[e].pc = "raised"
    /\ execs[e].wf # 0
    /\ wfObjs[execs[e].wf].type = "parallel"
    /\ wfObjs[execs[e].wf].status = "failed"
    /\ \E k \in 1..Len(execs[e].br) :
         /\ execs[e].br[k].st = "poll"
         /\ BranchAgent(execs[e], k) \in DOMAIN agents
         /\ agents[BranchAgent(execs[e], k)].status = "idle"

\* chain k of activation e ends with 'timed out' in this step
TimesOut(e, k) ==
  /\ e \in 1..Len(execs)
  /\ k \in 1..Len(execs[e].br)
  /\ k \in 1..Len(execs'[e].br)
  /\ execs[e].br[k].st = "poll"
  /\ execs'[e].br[k].st = "rejected"
  /\ execs'[e].br[k].err = AgentTimedOut(BranchAgent(execs[e], k))

\* C23: when a wait on a registered agent that is not terminal ends with 'timed
\* out', the agent stays registered, unchanged, and its status is active.
C23_TimedOutAgentStaysActive ==
  [][\A e \in 1..Len(execs), k \in 1..2 :
       (/\ TimesOut(e, k)
        /\ BranchAgent(execs[e], k) \in DOMAIN agents
        /\ ~TerminalStatus(agents[BranchAgent(execs[e], k)].status))
       => /\ BranchAgent(execs[e], k) \in DOMAIN agents'
          /\ agents'[BranchAgent(execs[e], k)] = agents[BranchAgent(execs[e], k)]
          /\ agents'[BranchAgent(execs[e], k)].status = "active"]_vars

\* the only calls issued so far are one createWorkflow, one executeWorkflow
\* that found the workflow and one cleanup (with or without id) that found it
CreateExecuteCleanup ==
  /\ calls = 3
  /\ Len(wfObjs) = 1
  /\ Len(execs) = 1
  /\ Len(cleanups) = 1
  /\ execs[1].wf # 0
  /\ cleanups[1].wf # 0

C25_StatisticsPointInTime ==
  /\ getStatistics.totalAgents = Len(agentOrder)
  /\ \A id \in AgentIds : id \notin DOMAIN messageQueues =>
       getStatistics.totalAgents <= Cardinality(AgentIds \ {id})
  /\ getStatistics.completedAgents = Len(doneOrder)
  /\ getStatistics.activeAgents =
       Cardinality({id \in DOMAIN agents : agents[id].status = "active"})
  /\ getStatistics.activeAgents + getStatistics.completedAgents
       <= getStatistics.totalAgents

\* one agent terminated (its completion still pending), another one completed:
\* the statistics count one agent, completed
C25_Witness ==
  /\ getStatistics.totalAgents = 1
  /\ getStatistics.completedAgents = 1
  /\ \E id \in AgentIds : id \notin DOMAIN agents /\ HasTimer(id)

NoPassResults(tasks) == \A i \in 1..Len(tasks) : ~tasks[i].passResults

\* the first execution runs a sequential or parallel workflow with distinct
\* agent names and no passResults flag
PlainRun ==
  /\ Alone
  /\ execs[1].wf # 0
  /\ wfObjs[execs[1].wf].type \in KnownTypes
  /\ DistinctNames(wfObjs[execs[1].wf].tasks)
  /\ NoPassResults(wfObjs[execs[1].wf].tasks)

PlainRunCompleted ==
  /\ execs[1].pc = "returned"
  /\ wfObjs[execs[1].wf].status = "completed"
  /\ \A t \in 1..Len(wfObjs[execs[1].wf].tasks) :
       LET pos == ResultPos(wfObjs[execs[1].wf].results,
                            wfObjs[execs[1].wf].tasks[t].agent)
       IN pos # 0 /\ wfObjs[execs[1].wf].results[pos].results # Null

\* C26: a sequential or parallel workflow with distinct agent names and no
\* passResults flag, executed with no other caller and no wait timing out,
\* eventually has status completed with a non-null result for every task
\* (unless the caller issues a further call first).
C26_PlainWorkflowCompletes == PlainRun ~> (~Alone \/ PlainRunCompleted)

\* a completed sequential run of two tasks with both results
C26_Witness ==
  /\ PlainRun
  /\ PlainRunCompleted
  /\ wfObjs[execs[1].wf].type = "sequential"
  /\ Len(wfObjs[execs[1].wf].tasks) = 2

IsSequential(x) == x.wf # 0 /\ wfObjs[x.wf].type = "sequential"

\* the ids of the agent:spawned events of a step, in order
SpawnedIds(ev) ==
  [j \in 1..Len(SelectSeq(ev, LAMBDA m : m[1] = "agent:spawned")) |->
     SelectSeq(ev, LAMBDA m : m[1] = "agent:spawned")[j][2]]

\* the registered agents spawned through the framework that are not terminal
LiveFrameworkAgents(reg) ==
  {id \in DOMAIN reg : /\ reg[id].options = FrameworkOptions
                        /\ ~TerminalStatus(reg[id].status)}

\* C27: an activation of a sequential workflow moves its task index by one at a
\* time, and moves from task i to task i+1 only from the point where its wait
\* on task i's agent has returned (the agent was seen completed) and with task
\* i's result recorded; a rejected wait (failed, not found, timed out) is never
\* followed by another task.  While the workflow is executed once, the only
\* agents the framework spawns are the one of task 1 at the start and the one
\* of task i+1 on such a move, and at most one agent spawned by the framework
\* is not terminal.
C27_SequentialOneAtATime ==
  [][ /\ \A e \in 1..Len(execs) : IsSequential(execs[e]) =>
           LET x == execs[e]
               y == execs'[e]
               w == wfObjs[x.wf]
           IN /\ y.i \in {x.i, x.i + 1}
              /\ y.i = x.i + 1 =>
                   /\ x.pc = "seq"
                   /\ x.br[1].st \in {"get", "next"}
                   /\ HasResult(wfObjs'[x.wf].results, w.tasks[x.i].agent)
              /\ (x.br # << >> /\ x.br[1].st = "rejected") => y.i = x.i
      /\ (Len(execs') = 1 /\ IsSequential(execs'[1]) /\ call'[1] # "spawnAgent") =>
           LET y == execs'[1]
               w == wfObjs'[y.wf]
               old == IF execs = << >> THEN 0 ELSE execs[1].i
           IN /\ Len(SpawnedIds(emitted')) <= 1
              /\ SpawnedIds(emitted') # << >> =>
                   /\ y.i = old + 1
                   /\ SpawnedIds(emitted')[1] = AgentId(w.id, w.tasks[y.i].agent)
              /\ Cardinality(LiveFrameworkAgents(agents')) <= 1
    ]_vars

\* the second task's agent is running, the first one's has completed and its
\* result is recorded
C27_Witness ==
  /\ Len(execs) = 1
  /\ IsSequential(execs[1])
  /\ execs[1].i = 2
  /\ Len(wfObjs[execs[1].wf].results) = 1
  /\ AgentId("w", "A") \in DOMAIN agents
  /\ agents[AgentId("w", "A")].status = "completed"
  /\ LiveFrameworkAgents(agents) = {AgentId("w", "B")}

\* the message:sent events of a step
SentEvents(ev) == SelectSeq(ev, LAMBDA m : m[1] = "message:sent")

\* activation e is at the point of executeSequential where the wait on task
\* i's agent has returned, and the agent is still registered
AtHandoffPoint(e) ==
  /\ IsSequential(execs[e])
  /\ execs[e].br # << >>
  /\ execs[e].br[1].st = "get"
  /\ BranchAgent(execs[e], 1) \in DOMAIN agents

\* C28: when an activation of a sequential workflow passes the point after the
\* wait on task i, it attempts the handoff exactly when task i has passResults
\* and is not the last task: the attempt either sends one message from task i's
\* agent id to task i+1's agent id carrying task i's result, or (no inbox for
\* the recipient) raises 'not found' for task i+1's agent id; otherwise (last
\* task, or no flag) the step sends nothing and raises no such error.  No
\* other step of the framework sends a message.
C28_HandoffIffFlagAndNotLast ==
  [][ /\ \A e \in 1..Len(execs) :
           (AtHandoffPoint(e) /\ execs'[e] # execs[e]) =>
             LET x == execs[e]
                 w == wfObjs[x.wf]
                 from == BranchAgent(x, 1)
                 due == x.i < Len(w.tasks) /\ w.tasks[x.i].passResults
                 to == AgentId(w.id, w.tasks[x.i + 1].agent)
             IN /\ due =>
                     \/ /\ Len(SentEvents(emitted')) = 1
                        /\ SentEvents(emitted')[1][2].from = from
                        /\ SentEvents(emitted')[1][2].to = to
                        /\ SentEvents(emitted')[1][2].message = agents[from].results
                        /\ messageQueues'[to] =
                             Append(messageQueues[to], SentEvents(emitted')[1][2])
                        /\ execs'[e].br[1].st = "next"
                     \/ /\ SentEvents(emitted') = << >>
                        /\ to \notin DOMAIN messageQueues
                        /\ execs'[e].br[1].err = AgentNotFound(to)
                        /\ messageQueues' = messageQueues
                /\ ~due =>
                     /\ SentEvents(emitted') = << >>
                     /\ \A id \in DOMAIN messageQueues :
                          messageQueues'[id] = messageQueues[id]
                     /\ execs'[e].br[1].st # "next"
                     /\ execs'[e].br[1].err = NoError \/ SpawnFailed(execs'[e], 1)
      /\ SentEvents(emitted') # << >> =>
           \/ call'[1] = "sendMessage"
           \/ \E e \in 1..Len(execs) : AtHandoffPoint(e) /\ execs'[e] # execs[e]
    ]_vars

\* a handoff that was delivered: the recipient had been spawned by another
\* caller, and its inbox holds task 1's result sent by task 1's agent
C28_Witness ==
  \E e \in 1..Len(execs) :
     /\ IsSequential(execs[e])
     /\ execs[e].i = 1
     /\ execs[e].br[1].st = "next"
     /\ AgentId("w", "B") \in DOMAIN messageQueues
     /\ Len(messageQueues[AgentId("w", "B")]) = 1
     /\ messageQueues[AgentId("w", "B")][1].from = AgentId("w", "A")
     /\ messageQueues[AgentId("w", "B")][1].message = agents[AgentId("w", "A")].results

IsParallel(x) == x.wf # 0 /\ wfObjs[x.wf].type = "parallel"

\* C29: the executeWorkflow call on a parallel workflow spawns in one step, in
\* task order, the agent of every task: every spawn succeeds exactly when the
\* names are distinct and none of the ids is registered, and then the step ends
\* with all N agents registered and idle, one completion pending for each, and
\* every task chain before its wait; no later step of a parallel activation
\* spawns an agent.
C29_ParallelSpawnsAllFirst ==
  [][ /\ \A wid \in WorkflowIds :
           (/\ call' = <<"executeWorkflow", wid>>
            /\ LookupWorkflow(wid) # 0
            /\ wfObjs[LookupWorkflow(wid)].type = "parallel") =>
             LET w == wfObjs[LookupWorkflow(wid)]
                 x == execs'[Len(execs')]
                 N == Len(w.tasks)
                 ids == [k \in 1..N |-> AgentId(w.id, w.tasks[k].agent)]
             IN /\ Len(x.br) = N
                /\ NoneRejected(x) <=>
                     (DistinctNames(w.tasks) /\ \A k \in 1..N : ids[k] \notin DOMAIN agents)
                /\ NoneRejected(x) =>
                     /\ \A k \in 1..N :
                          /\ ids[k] \in DOMAIN agents'
                          /\ agents'[ids[k]].status = "idle"
                          /\ HasTimer(ids[k])'
                          /\ x.br[k].st = "push"
                     /\ SpawnedIds(emitted') = ids
                     /\ Len(timers') = Len(timers) + N
      /\ (execs # << >> /\ \A e \in 1..Len(execs) : IsParallel(execs[e])
             /\ call'[1] \notin {"executeWorkflow", "spawnAgent"}) =>
           SpawnedIds(emitted') = << >>
    ]_vars

\* both agents of a two-task parallel workflow are registered and idle, and
\* neither chain has started its wait
C29_Witness ==
  \E e \in 1..Len(execs) :
     /\ IsParallel(execs[e])
     /\ execs[e].pc = "par"
     /\ Len(execs[e].br) = 2
     /\ \A k \in 1..2 :
          /\ execs[e].br[k].st = "push"
          /\ BranchAgent(execs[e], k) \in DOMAIN agents
          /\ agents[BranchAgent(execs[e], k)].status = "idle"
     /\ BranchAgent(execs[e], 1) # BranchAgent(execs[e], 2)

\* chain k of activation e sleeps between two polls of an agent that has been
\* removed since the last poll
WaitsOnRemoved(e, k) ==
  /\ execs[e].wf # 0
  /\ k \in 1..Len(execs[e].br)
  /\ execs[e].br[k].st = "poll"
  /\ BranchAgent(execs[e], k) \notin DOMAIN agents

\* C30 as stated: a wait whose agent has been removed ends, at its next step,
\* with 'not found', and that error becomes the error of the activation (and
\* so of the workflow).
C30_RemovedAgentEndsWaitNotFound ==
  [][ \A e \in 1..Len(execs) : \A k \in 1..2 :
        (WaitsOnRemoved(e, k) /\ execs'[e].br[k] # execs[e].br[k]) =>
          /\ execs'[e].br[k].st = "rejected"
          /\ execs'[e].br[k].err = AgentNotFound(BranchAgent(execs[e], k))
          /\ execs'[e].pc = "catch"
          /\ execs'[e].err = AgentNotFound(BranchAgent(execs[e], k))
    ]_vars

\* C30, amended: a poll of a wait whose agent has been removed and is still
\* unregistered rejects with 'not found'; the wait's next step ends it
\* rejected, with 'not found' or, when the timeout has elapsed, with 'timed
\* out', never successfully and never back to polling.  If the activation had
\* not failed before, that error becomes its error and the catch of
\* executeWorkflow records it in the workflow with status failed; if it had (a
\* parallel workflow whose other chain was rejected first), the earlier error
\* stays.
C30_RemovedAgentEndsWaitRejected ==
  [][ \A e \in 1..Len(execs) :
        /\ \A k \in 1..2 : WaitsOnRemoved(e, k) =>
             LET x == execs[e]
                 id == BranchAgent(x, k)
             IN /\ PollOnce(x, k, id).br[k].st = "rejected"
                /\ PollOnce(x, k, id).br[k].err = AgentNotFound(id)
                /\ execs'[e].br[k] # x.br[k] =>
                     /\ execs'[e].br[k].st = "rejected"
                     /\ execs'[e].br[k].err \in {AgentNotFound(id), AgentTimedOut(id)}
                     /\ IF x.pc \in {"seq", "par"}
                        THEN /\ execs'[e].pc = "catch"
                             /\ execs'[e].err = execs'[e].br[k].err
                        ELSE /\ execs'[e].pc = x.pc
                             /\ execs'[e].err = x.err
        /\ (execs[e].pc = "catch" /\ execs'[e].pc = "raised") =>
             /\ wfObjs'[execs[e].wf].status = "failed"
             /\ wfObjs'[execs[e].wf].error = execs[e].err
    ]_vars

\* an agent was terminated under a wait: the wait was rejected with 'not
\* found', the activation raised it and the workflow is failed with it
C30_Witness ==
  \E e \in 1..Len(execs) : \E k \in 1..2 :
     /\ execs[e].wf # 0
     /\ k \in 1..Len(execs[e].br)
     /\ call = NoCall
     /\ execs[e].pc = "raised"
     /\ execs[e].br[k].st = "rejected"
     /\ execs[e].br[k].err = AgentNotFound(BranchAgent(execs[e], k))
     /\ BranchAgent(execs[e], k) \notin DOMAIN agents
     /\ execs[e].err = execs[e].br[k].err
     /\ wfObjs[execs[e].wf].status = "failed"
     /\ wfObjs[execs[e].wf].error = execs[e].br[k].err

\* the completion timer at the head of the queue was armed by an earlier
\* spawn of id than the one that created the registered agent: spawnAgent
\* arms one timer per agent it creates, so a second timer for id further
\* back is the registered agent's own
StaleTimerDue(id) ==
  /\ timers # << >>
  /\ Head(timers).agentId = id
  /\ id \in DOMAIN agents
  /\ \E j \in 2..Len(timers) : timers[j].agentId = id

\* C31: the completion of the work started by an earlier spawnAgent(id) leaves
\* the agent created by a later spawnAgent(id) as it is (status and results).
C31_EarlierWorkLeavesNewAgent ==
  [][\A id \in AgentIds :
       (StaleTimerDue(id) /\ call' = NoCall /\ timers' = Tail(timers)) =>
         agents'[id] = agents[id]]_vars

\* the errors a workflow can fail with
FailureKinds ==
  {"Agent already exists", "Agent not found", "Unknown workflow type", "Agent timed out"}

\* C32: no agent has status failed and no step emits agent:failed; no task
\* chain and no activation has ended with 'Agent failed', and a failed workflow
\* carries one of: already exists (duplicate agent id), not found (send to a
\* missing inbox, missing agent), unknown workflow type, timed out.
C32_NoAgentFails ==
  /\ \A id \in DOMAIN agents : agents[id].status \in {"idle", "completed"}
  /\ \A j \in 1..Len(emitted) : emitted[j][1] # "agent:failed"
  /\ \A e \in 1..Len(execs) :
       /\ execs[e].err # NoError =>
            execs[e].err[1] \in FailureKinds \cup {"Workflow not found"}
       /\ \A k \in 1..Len(execs[e].br) :
            execs[e].br[k].err # NoError => execs[e].br[k].err[1] \in FailureKinds
  /\ \A o \in 1..Len(wfObjs) :
       wfObjs[o].status = "failed" => wfObjs[o].error[1] \in FailureKinds

\* a workflow has failed by a wait timeout while its agent went on to complete
C32_Witness ==
  \E o \in 1..Len(wfObjs) :
     /\ wfObjs[o].status = "failed"
     /\ wfObjs[o].error[1] = "Agent timed out"
     /\ wfObjs[o].error[2] \in DOMAIN agents
     /\ agents[wfObjs[o].error[2]].status = "completed"

\* C33: a sequential or parallel workflow whose two tasks name the same agent,
\* run with no other caller and no wait timing out, has, once settled, raised
\* the 'already exists' error of the second spawn and is failed with it; the
\* first occurrence's agent is still registered; a sequential workflow has
\* recorded the completed first occurrence's result and nothing else, a
\* parallel workflow has recorded nothing.
C33_DuplicateNameFails ==
  (/\ Alone
   /\ execs[1].wf # 0
   /\ wfObjs[execs[1].wf].type \in KnownTypes
   /\ Len(wfObjs[execs[1].wf].tasks) = 2
   /\ ~DistinctNames(wfObjs[execs[1].wf].tasks)
   /\ Settled(execs[1])
   /\ ~TimedOut(execs[1])) =>
    LET x == execs[1]
        w == wfObjs[x.wf]
        id == AgentId(w.id, w.tasks[2].agent)
    IN /\ x.pc = "raised"
       /\ x.err = AlreadyExists(id)
       /\ w.status = "failed"
       /\ w.error = AlreadyExists(id)
       /\ id \in DOMAIN agents
       /\ w.agents = <<id>>
       /\ IF w.type = "sequential"
          THEN /\ agents[id].status = "completed"
               /\ w.results = <<[agent |-> w.tasks[1].agent,
                                 results |-> agents[id].results]>>
          ELSE w.results = << >>

\* a sequential workflow [A, A] has failed on its second spawn after recording
\* the first A's result
C33_Witness ==
  /\ Alone
  /\ IsSequential(execs[1])
  /\ ~DistinctNames(wfObjs[execs[1].wf].tasks)
  /\ execs[1].pc = "raised"
  /\ execs[1].i = 2
  /\ Len(wfObjs[execs[1].wf].results) = 1
  /\ wfObjs[execs[1].wf].error = AlreadyExists(AgentId("w", "A"))

\* the registered agents that the framework spawned for workflow id wid
FrameworkAgentsOf(wid) ==
  {id \in DOMAIN agents : id[1] = wid /\ agents[id].options = FrameworkOptions}

Range(seq) == {seq[j] : j \in 1..Len(seq)}

\* the agent ids listed by the records that cleanup activations hold
HeldByCleanups(cl, objs) ==
  UNION {Range(objs[cl[c].wf].agents) : c \in {d \in 1..Len(cl) : cl[d].wf # 0}}

C37_EventsPerIncarnation ==
  [][\A id \in AgentIds :
       /\ CountEvents(emitted', "agent:spawned", id) =
            (IF id \notin DOMAIN agents /\ id \in DOMAIN agents' THEN 1 ELSE 0)
       /\ CountEvents(emitted', "agent:terminated", id) =
            (IF id \in DOMAIN agents /\ id \notin DOMAIN agents' THEN 1 ELSE 0)
       /\ CountEvents(emitted', "agent:completed", id) > 0 =>
            (id \in DOMAIN agents /\ id \in DOMAIN agents')
     ]_vars

\* the completion timer of a terminated agent has fired without an event: the
\* agent was spawned by a workflow, is gone, and was never reported completed
C37_Witness ==
  \E o \in 1..Len(wfObjs) : \E id \in Range(wfObjs[o].agents) :
     /\ id \notin DOMAIN agents
     /\ ~HasTimer(id)
     /\ completedEv[id] = 0
     /\ call = NoCall
     /\ emitted = << >>
     /\ timers = << >>

\* C38: an agent that is in the registry is eventually completed with non-null
\* results, unless it is terminated first; whatever the workflows do.
C38_AgentEventuallyCompletes ==
  \A id \in AgentIds :
    (id \in DOMAIN agents) ~>
      (\/ id \notin DOMAIN agents
       \/ agents[id].status = "completed" /\ agents[id].results # Null)

\* the wait on an agent timed out and the workflow failed, and the agent
\* completed afterwards with its result
C38_Witness ==
  \E e \in 1..Len(execs) : \E k \in 1..2 :
     /\ execs[e].wf # 0
     /\ k \in 1..Len(execs[e].br)
     /\ execs[e].pc = "raised"
     /\ execs[e].br[k].err = AgentTimedOut(BranchAgent(execs[e], k))
     /\ BranchAgent(execs[e], k) \in DOMAIN agents
     /\ agents[BranchAgent(execs[e], k)].status = "completed"
     /\ agents[BranchAgent(execs[e], k)].results # Null
     /\ timers = << >>

\* ---- one caller running two workflows side by side --------------------------------------
\* the configurations with two tasks, distinct agent names and no passResults
PlainConfigs ==
  {cfg \in Configs : /\ cfg.type \in KnownTypes
                      /\ Len(cfg.tasks) = 2
                      /\ DistinctNames(cfg.tasks)
                      /\ NoPassResults(cfg.tasks)}

\* the caller creates and executes workflows under two ids on one framework
\* and one coordinator; no other caller, no wait timing out
NextTwo ==
  \/ calls < MaxCallsTwo /\
       \E wid \in TwoWorkflowIds, cfg \in PlainConfigs : CreateWorkflow(wid, cfg)
  \/ calls < MaxCallsTwo /\ \E wid \in TwoWorkflowIds : ExecuteWorkflow(wid)
  \/ Continue

TwoSpec == Init /\ [][NextTwo]_vars /\ WF_progVars(Continue)

\* two workflows with different ids have been created and each has been
\* executed once, and the caller has made no other call
TwoRuns ==
  /\ calls = 4
  /\ Len(wfObjs) = 2
  /\ wfObjs[1].id # wfObjs[2].id
  /\ Len(execs) = 2
  /\ {execs[1].wf, execs[2].wf} = {1, 2}

\* workflow record w lists only agent ids derived from its own id, and its
\* results are keyed by its own tasks' names and are its own agents' results
OwnAgentsOnly(w) ==
  /\ \A id \in Range(w.agents) :
       id[1] = w.id /\ \E t \in 1..Len(w.tasks) : id[2] = w.tasks[t].agent
  /\ \A j \in 1..Len(w.results) :
       /\ \E t \in 1..Len(w.tasks) : w.results[j].agent = w.tasks[t].agent
       /\ AgentId(w.id, w.results[j].agent) \in DOMAIN agents
       /\ w.results[j].results = agents[AgentId(w.id, w.results[j].agent)].results

BothCompleted ==
  \A o \in 1..2 :
    /\ wfObjs[o].status = "completed"
    /\ Len(wfObjs[o].agents) = Len(wfObjs[o].tasks)
    /\ Len(wfObjs[o].results) = Len(wfObjs[o].tasks)
    /\ \A e \in 1..2 : execs[e].pc = "returned"

\* C34: with two workflows of different ids that use the same agent names,
\* created and executed on one coordinator in any interleaving, every record
\* lists only its own agent ids and holds only its own agents' results at all
\* times, and both workflows eventually are completed with one agent and one
\* result per task (unless the caller goes on to make a further call).
C34_TwoWorkflowsIndependent ==
  /\ [](\A o \in 1..Len(wfObjs) : OwnAgentsOnly(wfObjs[o]))
  /\ TwoRuns ~> (~TwoRuns \/ BothCompleted)

\* both workflows are completed, the agents of both are registered under
\* their own ids
C34_Witness ==
  /\ TwoRuns
  /\ BothCompleted
  /\ DOMAIN agents = TwoAgentIds
  /\ wfObjs[1].type # wfObjs[2].type

====
